---- MODULE Spec2Model ----
(***************************************************************************)
(* Model of aruba-compliance: the token lifecycle of ArubaCentralAPI       *)
(* (aruba_central_api.py) and the exemption filter, comparison and exit    *)
(* codes of main.py.                                                       *)
(***************************************************************************)
EXTENDS Integers, Sequences, FiniteSets, TLC

VARIABLES
    token_file,     \* content of token.json
    now,            \* time.time()
    client_id,      \* ARUBA_CLIENT_ID
    client_secret,  \* ARUBA_CLIENT_SECRET
    base_url,       \* ARUBA_BASE_URL
    access_token,   \* self.access_token, the value _get_access_token returned
    tpc,            \* position inside _get_access_token
    ret,            \* which return statement of the token code was taken
    log,            \* I/O performed so far, in order
    token_file0,    \* token.json as it was when _get_access_token was called
    now0,           \* time.time() as read on line 45
    config_list,                \* apply_exemptions: the document being filtered
    exemption_rules,            \* apply_exemptions: the rule set
    pos,                        \* apply_exemptions: index of the next line of the loop
    in_fully_exempt_block,      \* apply_exemptions: line 31
    current_line_exemptions,    \* apply_exemptions: line 32
    filtered_config,            \* apply_exemptions: line 30
    was_exempt,                 \* in_fully_exempt_block as each line met it
    kept,                       \* indices of the lines appended to filtered_config
    args,               \* main: the parsed command line
    group_name,         \* main: --group-name or ARUBA_GROUP_NAME
    template_file,      \* main: content of the file args.template
    previous_file,      \* main: content of the file args.previous_config
    exemptions_file,    \* main: content of the file args.exemptions
    saved_file,         \* main: content of the file args.save_config
    mpc,                \* main: position inside main()
    config_to_compare,  \* main: line 148
    live_config,        \* main: line 171
    exit_code,          \* main: status of sys.exit, -1 while running
    additions,          \* compare_configs: "Lines added", -1 when not printed
    removals,           \* compare_configs: "Lines removed", -1 when not printed
    diff                \* compare_configs: the unified diff, line 89

tokenVars == <<token_file, now, client_id, client_secret, base_url,
               access_token, tpc, ret, log, token_file0, now0>>

filterVars == <<config_list, exemption_rules, pos, in_fully_exempt_block,
                current_line_exemptions, filtered_config, was_exempt, kept>>

mainVars == <<args, group_name, template_file, previous_file, exemptions_file,
              saved_file, mpc, config_to_compare, live_config, exit_code,
              additions, removals, diff>>

vars == <<tokenVars, filterVars, mainVars>>

----------------------------------------------------------------------------
(* Bounds *)

MaxSkew == 1        \* the clock is read within MaxSkew seconds of the expiry instant
MaxDelay == 1       \* a token exchange takes up to MaxDelay seconds

----------------------------------------------------------------------------
(* Values *)

None == "None"                      \* Python None, also an absent key or variable
Truthy(v) == v \notin {None, ""}    \* Python truthiness of a str or None
TruthyNum(n) == n # 0               \* Python truthiness of a number (0 also stands for None)

TOKEN_LIFETIME == 7200              \* seconds, line 46
IssuedAt == 1000000                 \* the timestamp of a stored record


TokenRecord(at, rt, ts, cid, cs) ==
    [access_token |-> at, refresh_token |-> rt, timestamp |-> ts,
     client_id |-> cid, client_secret |-> cs]

EmptyRecord == TokenRecord(None, None, 0, None, None)

\* token.json: absent, a complete JSON record, or opened for writing and not
\* completely written
NoFile == [state |-> "absent", data |-> EmptyRecord]
Truncated == [state |-> "partial", data |-> EmptyRecord]
JsonFile(r) == [state |-> "json", data |-> r]

\* _load_token_data: a missing or undecodable file reads as {}
load_token_data(f) == IF f.state = "json" THEN f.data ELSE EmptyRecord

\* lines 44-46: the cached token is usable
IsFreshLe(token_data, t) ==
    /\ Truthy(token_data.access_token)
    /\ TruthyNum(token_data.timestamp)
    /\ t - token_data.timestamp <= TOKEN_LIFETIME

IsFresh(token_data, t) ==
    /\ Truthy(token_data.access_token)
    /\ TruthyNum(token_data.timestamp)
    /\ t - token_data.timestamp < TOKEN_LIFETIME

\* line 60: the guard of the from-scratch authentication
HasCredentials(cid, cs) == Truthy(cid) /\ Truthy(cs)

\* requests.post on f"{base_url}/oauth2/token": without a base URL the URL has
\* no scheme and requests raises MissingSchema, a RequestException
PostOutcomes(url) ==
    IF Truthy(url)
    THEN {[ok |-> FALSE, access_token |-> None, refresh_token |-> None]} \cup
         [ok : {TRUE}, access_token : {None, "A1"}, refresh_token : {None, "R1"}]
    ELSE {[ok |-> FALSE, access_token |-> None, refresh_token |-> None]}

SaveOutcomes == {"ok", "open_fails", "write_fails"}

\* _save_token_data: open(token_file, 'w') truncates, json.dump writes
save_token_data(f, resp, t, cid, cs, how) ==
    CASE how = "ok" -> JsonFile(TokenRecord(resp.access_token, resp.refresh_token, t, cid, cs))
      [] how = "open_fails" -> f
      [] how = "write_fails" -> Truncated

Count(s, e) == Cardinality({i \in DOMAIN s : s[i] = e})

----------------------------------------------------------------------------
(* ArubaCentralAPI._get_access_token, up to its first network exchange *)

get_access_token ==
    /\ tpc = "call"
    /\ LET token_data == load_token_data(token_file) IN
       /\ token_file0' = token_file
       /\ now0' = now
       /\ IF IsFresh(token_data, now)
          THEN /\ access_token' = token_data.access_token
               /\ tpc' = "returned"
               /\ ret' = "cached"
               /\ log' = log \o <<"load">>
          ELSE IF Truthy(token_data.refresh_token)
          THEN /\ tpc' = "refreshing"
               /\ log' = log \o <<"load", "post_refresh">>
               /\ UNCHANGED <<access_token, ret>>
          ELSE IF ~HasCredentials(client_id, client_secret)
          THEN /\ access_token' = None
               /\ tpc' = "returned"
               /\ ret' = "no_credentials"
               /\ log' = log \o <<"load">>
          ELSE /\ tpc' = "reissuing"
               /\ log' = log \o <<"load", "post_reissue">>
               /\ UNCHANGED <<access_token, ret>>
    /\ UNCHANGED <<token_file, now, client_id, client_secret, base_url>>
    /\ UNCHANGED <<filterVars, mainVars>>

\* the tail shared by both exchanges: save the response, return its token
\* (lines 101-103 and 119-121); an OSError of the save is not caught here
SaveAndReturnUnsaved(resp, t, how, name) ==
    /\ token_file' = token_file
    /\ log' = log \o <<name>>
    /\ access_token' = resp.access_token
    /\ tpc' = "returned"
    /\ ret' = name

SaveAndReturn(resp, t, how, name) ==
    /\ token_file' = save_token_data(token_file, resp, t, client_id, client_secret, how)
    /\ log' = log \o <<name, "save">>
    /\ IF how = "ok"
       THEN /\ access_token' = resp.access_token
            /\ tpc' = "returned"
            /\ ret' = name
       ELSE /\ access_token' = None
            /\ tpc' = "raised"
            /\ ret' = "raised"

\* _refresh_token, lines 98-106: the response of the refresh exchange
refresh_token_no_fallback ==
    /\ tpc = "refreshing"
    /\ \E resp \in PostOutcomes(base_url), d \in 0..MaxDelay, how \in SaveOutcomes :
        /\ now' = now + d
        /\ IF resp.ok
           THEN SaveAndReturn(resp, now + d, how, "refresh_ok")
           ELSE /\ how = "ok"
                /\ access_token' = None
                /\ tpc' = "returned"
                /\ ret' = "auth_failed"
                /\ log' = log \o <<"refresh_err">>
                /\ UNCHANGED token_file
    /\ UNCHANGED <<client_id, client_secret, base_url, token_file0, now0>>
    /\ UNCHANGED <<filterVars, mainVars>>

refresh_token ==
    /\ tpc = "refreshing"
    /\ \E resp \in PostOutcomes(base_url), d \in 0..MaxDelay, how \in SaveOutcomes :
        /\ now' = now + d
        /\ IF resp.ok
           THEN SaveAndReturn(resp, now + d, how, "refresh_ok")
           ELSE /\ how = "ok"
                /\ tpc' = "reissuing"
                /\ log' = log \o <<"refresh_err", "post_reissue">>
                /\ UNCHANGED <<token_file, access_token, ret>>
    /\ UNCHANGED <<client_id, client_secret, base_url, token_file0, now0>>
    /\ UNCHANGED <<filterVars, mainVars>>

\* _authenticate_new_token, lines 116-124: the response of the reissue exchange
authenticate_new_token_retry ==
    /\ tpc = "reissuing"
    /\ \E resp \in PostOutcomes(base_url), d \in 0..MaxDelay, how \in SaveOutcomes :
        /\ now' = now + d
        /\ IF resp.ok
           THEN SaveAndReturn(resp, now + d, how, "reissue_ok")
           ELSE /\ how = "ok"
                /\ tpc' = "reissuing"
                /\ log' = log \o <<"reissue_err", "post_reissue">>
                /\ UNCHANGED <<token_file, access_token, ret>>
    /\ UNCHANGED <<client_id, client_secret, base_url, token_file0, now0>>
    /\ UNCHANGED <<filterVars, mainVars>>

authenticate_new_token ==
    /\ tpc = "reissuing"
    /\ \E resp \in PostOutcomes(base_url), d \in 0..MaxDelay, how \in SaveOutcomes :
        /\ now' = now + d
        /\ IF resp.ok
           THEN SaveAndReturn(resp, now + d, how, "reissue_ok")
           ELSE /\ how = "ok"
                /\ access_token' = None
                /\ tpc' = "returned"
                /\ ret' = "auth_failed"
                /\ log' = log \o <<"reissue_err">>
                /\ UNCHANGED token_file
    /\ UNCHANGED <<client_id, client_secret, base_url, token_file0, now0>>
    /\ UNCHANGED <<filterVars, mainVars>>

----------------------------------------------------------------------------
(* Text: a line is a sequence of one-character strings *)

Whitespace == {" ", "\t"}

\* ASCII order of the characters the model uses, for [a-z] ranges
AsciiOrder == <<"\t", " ", "!", "*", "-", "1", "2", "?", "G", "[", "]",
                "a", "b", "c", "d", "e", "f", "g", "h", "i", "k", "l", "m",
                "n", "o", "p", "r", "s", "t", "u", "v", "w", "x", "y", "z">>

Ord(c) == CHOOSE i \in DOMAIN AsciiOrder : AsciiOrder[i] = c

\* str.strip(): drop leading and trailing whitespace
RECURSIVE LStrip(_)
LStrip(s) == IF s # <<>> /\ Head(s) \in Whitespace THEN LStrip(Tail(s)) ELSE s

RECURSIVE RStrip(_)
RStrip(s) ==
    IF s # <<>> /\ s[Len(s)] \in Whitespace THEN RStrip(SubSeq(s, 1, Len(s) - 1)) ELSE s

Strip(s) == RStrip(LStrip(s))

\* str.startswith(' ')
StartsWithSpace(s) == s # <<>> /\ Head(s) = " "

\* fnmatch.translate, the '[' case: the index of the ']' closing the class
\* that opens at p[1], or 0 when the '[' stays a literal
ClassEnd(p) ==
    LET n == Len(p)
        j1 == IF n >= 2 /\ p[2] = "!" THEN 3 ELSE 2
        j2 == IF j1 <= n /\ p[j1] = "]" THEN j1 + 1 ELSE j1
        closing == {j \in j2..n : p[j] = "]"}
    IN IF closing = {} THEN 0 ELSE CHOOSE j \in closing : \A k \in closing : j <= k

\* membership of character c in the class body stuff (negation already removed)
RECURSIVE InClassBody(_, _)
InClassBody(c, stuff) ==
    IF stuff = <<>> THEN FALSE
    ELSE IF Len(stuff) >= 3 /\ stuff[2] = "-"
    THEN \/ (Ord(stuff[1]) <= Ord(c) /\ Ord(c) <= Ord(stuff[3]))
         \/ InClassBody(c, SubSeq(stuff, 4, Len(stuff)))
    ELSE c = Head(stuff) \/ InClassBody(c, Tail(stuff))

InClass(c, stuff) ==
    IF stuff[1] = "!" THEN ~InClassBody(c, Tail(stuff)) ELSE InClassBody(c, stuff)

\* fnmatch.fnmatch(name, pat) on a POSIX system: '*', '?', '[seq]', '[!seq]',
\* everything else literal, the whole name must match
RECURSIVE fnmatch(_, _)
fnmatch(name, pat) ==
    IF pat = <<>> THEN name = <<>>
    ELSE IF Head(pat) = "*"
    THEN fnmatch(name, Tail(pat)) \/ (name # <<>> /\ fnmatch(Tail(name), pat))
    ELSE IF name = <<>> THEN FALSE
    ELSE IF Head(pat) = "?" THEN fnmatch(Tail(name), Tail(pat))
    ELSE IF Head(pat) = "[" /\ ClassEnd(pat) > 0
    THEN /\ InClass(Head(name), SubSeq(pat, 2, ClassEnd(pat) - 1))
         /\ fnmatch(Tail(name), SubSeq(pat, ClassEnd(pat) + 1, Len(pat)))
    ELSE Head(name) = Head(pat) /\ fnmatch(Tail(name), Tail(pat))

----------------------------------------------------------------------------
(* JSON values: json.load, ==, json.dumps(indent=2, sort_keys=True) *)

\* every value has the same shape; a dict keeps its items in insertion order
Item(k, v) == [key |-> k, val |-> v]
JNull == [kind |-> "null", s |-> <<>>, n |-> 0, items |-> <<>>]
JStr(str) == [kind |-> "str", s |-> str, n |-> 0, items |-> <<>>]
JInt(i) == [kind |-> "int", s |-> <<>>, n |-> i, items |-> <<>>]
JList(vs) == [kind |-> "list", s |-> <<>>, n |-> 0,
              items |-> [i \in DOMAIN vs |-> Item(<<>>, vs[i])]]
JDict(kvs) == [kind |-> "dict", s |-> <<>>, n |-> 0,
               items |-> [i \in DOMAIN kvs |-> Item(kvs[i][1], kvs[i][2])]]

Keys(d) == {d.items[i].key : i \in DOMAIN d.items}
HasKey(d, k) == d.kind = "dict" /\ k \in Keys(d)
Get(d, k) == d.items[CHOOSE i \in DOMAIN d.items : d.items[i].key = k].val
Put(d, k, v) ==
    [d EXCEPT !.items = [i \in DOMAIN d.items |->
        IF d.items[i].key = k THEN Item(k, v) ELSE d.items[i]]]

\* Python ==: dicts compare without regard to insertion order
RECURSIVE PyEq(_, _)
PyEq(a, b) ==
    /\ a.kind = b.kind
    /\ CASE a.kind = "dict" ->
              /\ Len(a.items) = Len(b.items)
              /\ \A i \in DOMAIN a.items : \E j \in DOMAIN b.items :
                    /\ a.items[i].key = b.items[j].key
                    /\ PyEq(a.items[i].val, b.items[j].val)
         [] a.kind = "list" ->
              /\ Len(a.items) = Len(b.items)
              /\ \A i \in DOMAIN a.items : PyEq(a.items[i].val, b.items[i].val)
         [] OTHER -> a.s = b.s /\ a.n = b.n

\* str < str, by code point
RECURSIVE StrLess(_, _)
StrLess(x, y) ==
    IF y = <<>> THEN FALSE
    ELSE IF x = <<>> THEN TRUE
    ELSE IF Head(x) = Head(y) THEN StrLess(Tail(x), Tail(y))
    ELSE Ord(Head(x)) < Ord(Head(y))

RemoveAt(seq, m) == SubSeq(seq, 1, m - 1) \o SubSeq(seq, m + 1, Len(seq))

\* sort_keys=True
SortItemsNot(items) == items

RECURSIVE SortItemsRec(_)
SortItemsRec(items) ==
    IF items = <<>> THEN <<>>
    ELSE LET m == CHOOSE i \in DOMAIN items :
                    \A k \in DOMAIN items : k = i \/ StrLess(items[i].key, items[k].key)
         IN <<items[m]>> \o SortItemsRec(RemoveAt(items, m))

SortItems(items) == SortItemsRec(items)

Digits == <<"0", "1", "2", "3", "4", "5", "6", "7", "8", "9">>

RECURSIVE NatText(_)
NatText(i) ==
    IF i < 10 THEN <<Digits[i + 1]>> ELSE NatText(i \div 10) \o <<Digits[(i % 10) + 1]>>

IntText(i) == IF i < 0 THEN <<"-">> \o NatText(0 - i) ELSE NatText(i)

RECURSIVE Escape(_)
Escape(str) ==
    IF str = <<>> THEN <<>>
    ELSE (CASE Head(str) = "\"" -> <<"\\", "\"">>
            [] Head(str) = "\\" -> <<"\\", "\\">>
            [] Head(str) = "\t" -> <<"\\", "t">>
            [] OTHER -> <<Head(str)>>) \o Escape(Tail(str))

JsonString(str) == <<"\"">> \o Escape(str) \o <<"\"">>

Indent(level) == [i \in 1..(2 * level) |-> " "]

\* json.dumps(v, indent=2, sort_keys=True).splitlines(); the first line
\* carries no indentation of its own
RECURSIVE Dumps(_, _)
RECURSIVE DumpItems(_, _, _, _)
Dumps(v, level) ==
    CASE v.kind = "str" -> <<JsonString(v.s)>>
      [] v.kind = "int" -> <<IntText(v.n)>>
      [] v.kind = "null" -> << <<"n", "u", "l", "l">> >>
      [] v.kind = "list" ->
            IF v.items = <<>> THEN << <<"[", "]">> >>
            ELSE << <<"[">> >> \o DumpItems(v.items, 1, level + 1, FALSE)
                    \o << Indent(level) \o <<"]">> >>
      [] v.kind = "dict" ->
            IF v.items = <<>> THEN << <<"{", "}">> >>
            ELSE << <<"{">> >> \o DumpItems(SortItems(v.items), 1, level + 1, TRUE)
                    \o << Indent(level) \o <<"}">> >>

DumpItems(items, i, level, keyed) ==
    IF i > Len(items) THEN <<>>
    ELSE LET body == Dumps(items[i].val, level)
             prefix == Indent(level) \o
                       (IF keyed THEN JsonString(items[i].key) \o <<":", " ">> ELSE <<>>)
             ls == <<prefix \o body[1]>> \o Tail(body)
             sep == IF i < Len(items)
                    THEN [ls EXCEPT ![Len(ls)] = @ \o <<",">>]
                    ELSE ls
         IN sep \o DumpItems(items, i + 1, level, keyed)

----------------------------------------------------------------------------
(* difflib.unified_diff(a, b, lineterm='') *)

StartsWith(x, prefix) == Len(x) >= Len(prefix) /\ SubSeq(x, 1, Len(prefix)) = prefix

\* the length of the longest common run starting at a[i], b[j]
RECURSIVE RunLen(_, _, _, _, _, _)
RunLen(a, b, i, j, ahi, bhi) ==
    IF i > ahi \/ j > bhi THEN 0
    ELSE IF a[i] # b[j] THEN 0
    ELSE 1 + RunLen(a, b, i + 1, j + 1, ahi, bhi)

\* SequenceMatcher.find_longest_match without junk: the longest block
\* a[i..i+k-1] = b[j..j+k-1], earliest in a, then earliest in b, as <<i, j, k>>
LongestMatch(a, b, alo, ahi, blo, bhi) ==
    LET cands == {<<i, j, RunLen(a, b, i, j, ahi, bhi)>> : i \in alo..ahi, j \in blo..bhi}
    IN CHOOSE c \in cands : \A o \in cands :
            \/ c[3] > o[3]
            \/ c[3] = o[3] /\ c[1] < o[1]
            \/ c[3] = o[3] /\ c[1] = o[1] /\ c[2] <= o[2]

Prefixed(ch, seq, lo, hi) == [i \in 1..(hi - lo + 1) |-> <<ch>> \o seq[lo + i - 1]]

\* get_matching_blocks / get_opcodes, written out as the lines of the diff:
\* '-' lines of a gap before its '+' lines, ' ' lines for a matching block
RECURSIVE DiffBody(_, _, _, _, _, _)
DiffBody(a, b, alo, ahi, blo, bhi) ==
    LET m == IF alo > ahi \/ blo > bhi THEN <<alo, blo, 0>>
             ELSE LongestMatch(a, b, alo, ahi, blo, bhi)
    IN IF m[3] = 0
       THEN Prefixed("-", a, alo, ahi) \o Prefixed("+", b, blo, bhi)
       ELSE DiffBody(a, b, alo, m[1] - 1, blo, m[2] - 1)
            \o Prefixed(" ", a, m[1], m[1] + m[3] - 1)
            \o DiffBody(a, b, m[1] + m[3], ahi, m[2] + m[3], bhi)

FromHeader == <<"-", "-", "-", " ", "a">>
ToHeader == <<"+", "+", "+", " ", "b">>
HunkHeader == <<"@", "@">>

\* the diff is empty when nothing differs; otherwise the two file headers, a
\* hunk header and the lines (the trimming of ' ' lines to 3 lines of context
\* and the splitting into several hunks are left out: they drop only ' ' lines)
unified_diff(a, b) ==
    LET body == DiffBody(a, b, 1, Len(a), 1, Len(b))
    IN IF \A i \in DOMAIN body : body[i][1] = " " THEN <<>>
       ELSE <<FromHeader, ToHeader, HunkHeader>> \o body

\* lines 91-92
CountLines(d, ch) ==
    Cardinality({i \in DOMAIN d : StartsWith(d[i], <<ch>>) /\ ~StartsWith(d[i], <<ch, ch, ch>>)})

\* compare_configs, lines 81-112
compare_configs_ordered(config_a, config_b) ==
    IF config_a = config_b
    THEN [different |-> FALSE, additions |-> 0 - 1, removals |-> 0 - 1, diff |-> <<>>]
    ELSE LET d == unified_diff(Dumps(config_a, 0), Dumps(config_b, 0))
         IN [different |-> TRUE, additions |-> CountLines(d, "+"),
             removals |-> CountLines(d, "-"), diff |-> d]

compare_configs(config_a, config_b) ==
    IF PyEq(config_a, config_b)
    THEN [different |-> FALSE, additions |-> 0 - 1, removals |-> 0 - 1, diff |-> <<>>]
    ELSE LET d == unified_diff(Dumps(config_a, 0), Dumps(config_b, 0))
         IN [different |-> TRUE, additions |-> CountLines(d, "+"),
             removals |-> CountLines(d, "-"), diff |-> d]

----------------------------------------------------------------------------
(* apply_exemptions (main.py 20-74) *)

\* The value of an exemption rule: "*", a list of line patterns, anything else
RuleStar == [kind |-> "star", pats |-> <<>>]
RuleList(ps) == [kind |-> "list", pats |-> ps]
RuleOther == [kind |-> "other", pats |-> <<>>]

\* exemption_rules is a dict: a sequence of <<block_pattern, rules>> in
\* insertion order

\* line 37
IsTerminatorNoStrip(line) == line = <<"!">>

IsTerminator(line) == Strip(line) = <<"!">>

\* line 42
IsHeader(line) == ~StartsWithSpace(line)

\* lines 47-55: the index of the first entry whose pattern matches, 0 if none
LastMatch(line, rules) ==
    LET m == {i \in DOMAIN rules : fnmatch(line, rules[i][1])}
    IN IF m = {} THEN 0 ELSE CHOOSE i \in m : \A k \in m : i >= k

FirstMatch(line, rules) ==
    LET m == {i \in DOMAIN rules : fnmatch(line, rules[i][1])}
    IN IF m = {} THEN 0 ELSE CHOOSE i \in m : \A k \in m : i <= k

\* lines 61-66
IsLineExemptNoStrip(line, line_exemptions) ==
    \E k \in DOMAIN line_exemptions : fnmatch(line, line_exemptions[k])

IsLineExempt(line, line_exemptions) ==
    \E k \in DOMAIN line_exemptions : fnmatch(Strip(line), line_exemptions[k])

\* one iteration of the loop of lines 34-72 on the loop state st
LoopBodyStripped(st, line, rules) ==
    IF st.in_fully_exempt_block
    THEN [st EXCEPT !.in_fully_exempt_block = ~IsTerminator(line), !.emit = FALSE]
    ELSE LET m == IF IsHeader(line) THEN FirstMatch(line, rules) ELSE 0
             exempt == m > 0 /\ rules[m][2].kind = "star"
             cle == IF ~IsHeader(line) THEN st.current_line_exemptions
                    ELSE IF m > 0 /\ rules[m][2].kind = "list" THEN rules[m][2].pats
                    ELSE <<>>
         IN IF exempt
            THEN [in_fully_exempt_block |-> TRUE, current_line_exemptions |-> <<>>,
                  filtered_config |-> st.filtered_config, emit |-> FALSE]
            ELSE IF IsLineExempt(line, cle)
            THEN [in_fully_exempt_block |-> FALSE, current_line_exemptions |-> cle,
                  filtered_config |-> st.filtered_config, emit |-> FALSE]
            ELSE [in_fully_exempt_block |-> FALSE, current_line_exemptions |-> cle,
                  filtered_config |-> Append(st.filtered_config, Strip(line)), emit |-> TRUE]

LoopBody(st, line, rules) ==
    IF st.in_fully_exempt_block
    THEN [st EXCEPT !.in_fully_exempt_block = ~IsTerminator(line), !.emit = FALSE]
    ELSE LET m == IF IsHeader(line) THEN FirstMatch(line, rules) ELSE 0
             exempt == m > 0 /\ rules[m][2].kind = "star"
             cle == IF ~IsHeader(line) THEN st.current_line_exemptions
                    ELSE IF m > 0 /\ rules[m][2].kind = "list" THEN rules[m][2].pats
                    ELSE <<>>
         IN IF exempt
            THEN [in_fully_exempt_block |-> TRUE, current_line_exemptions |-> <<>>,
                  filtered_config |-> st.filtered_config, emit |-> FALSE]
            ELSE IF IsLineExempt(line, cle)
            THEN [in_fully_exempt_block |-> FALSE, current_line_exemptions |-> cle,
                  filtered_config |-> st.filtered_config, emit |-> FALSE]
            ELSE [in_fully_exempt_block |-> FALSE, current_line_exemptions |-> cle,
                  filtered_config |-> Append(st.filtered_config, line), emit |-> TRUE]

\* lines 30-32
LoopStart == [in_fully_exempt_block |-> FALSE, current_line_exemptions |-> <<>>,
              filtered_config |-> <<>>, emit |-> FALSE]

RECURSIVE RunLoop(_, _, _)
RunLoop(st, lines, rules) ==
    IF lines = <<>> THEN st ELSE RunLoop(LoopBody(st, Head(lines), rules), Tail(lines), rules)

apply_exemptions(lines, rules) == RunLoop(LoopStart, lines, rules).filtered_config

\* lines 34-72, one line of config_list
ApplyExemptionsLine ==
    /\ pos <= Len(config_list)
    /\ LET st == LoopBody([in_fully_exempt_block |-> in_fully_exempt_block,
                           current_line_exemptions |-> current_line_exemptions,
                           filtered_config |-> filtered_config, emit |-> FALSE],
                          config_list[pos], exemption_rules) IN
       /\ in_fully_exempt_block' = st.in_fully_exempt_block
       /\ current_line_exemptions' = st.current_line_exemptions
       /\ filtered_config' = st.filtered_config
       /\ kept' = IF st.emit THEN kept \cup {pos} ELSE kept
    /\ was_exempt' = Append(was_exempt, in_fully_exempt_block)
    /\ pos' = pos + 1
    /\ UNCHANGED <<config_list, exemption_rules>>
    /\ UNCHANGED <<tokenVars, mainVars>>

\* line 74: the loop is over
FilterDone == pos > Len(config_list)

----------------------------------------------------------------------------
(* Bounded documents and rule sets *)

MaxLines == 4       \* lines of a generated document

S_h == <<"h">>
S_a1 == <<"a", "1">>
S_x == <<" ", "x">>
S_y == <<" ", "y">>
S_bang == <<"!">>
S_ibang == <<" ", "!">>

LinePool == {S_h, S_a1, S_x, S_y, S_bang, S_ibang}

L_interface == <<"i","n","t","e","r","f","a","c","e"," ","G","i","1">>
L_description == <<" ","d","e","s","c","r","i","p","t","i","o","n"," ","x">>
L_hostname == <<"h","o","s","t","n","a","m","e"," ","s","w","1">>
L_snmp == <<"s","n","m","p","-","s","e","r","v","e","r"," ","h","o","s","t">>
L_community == <<" ","c","o","m","m","u","n","i","t","y"," ","p","u","b","l","i","c">>
L_location == <<" ","l","o","c","a","t","i","o","n"," ","l","a","b">>

P_interface == <<"i","n","t","e","r","f","a","c","e"," ","*">>
P_snmp == <<"s","n","m","p","-","s","e","r","v","e","r"," ","*">>
P_community == <<"c","o","m","m","u","n","i","t","y"," ","*">>

ScenarioBlockDoc == <<L_interface, L_description, S_bang, L_hostname>>
ScenarioBlockRules == << <<P_interface, RuleStar>> >>
ScenarioLineDoc == <<L_snmp, L_community, L_location, S_bang>>
ScenarioLineRules == << <<P_snmp, RuleList(<<P_community>>)>> >>

RuleSets ==
    { <<>>,
      ScenarioBlockRules,
      ScenarioLineRules,
      << <<<<"a", "*">>, RuleStar>>, <<<<"h">>, RuleList(<<<<"y">>>>)>> >>,
      << <<<<"h", "*">>, RuleList(<<<<"h", "*">>, <<"y">>>>)>> >>,
      << <<<<"?", "1">>, RuleList(<<<<"x">>>>)>>, <<<<"a", "*">>, RuleStar>> >>,
      << <<<<"a", "*">>, RuleStar>>, <<<<"?", "1">>, RuleList(<<<<"x">>>>)>> >>,
      << <<<<"[", "!", "g", "-", "i", "]", "*">>, RuleStar>> >>,
      << <<<<"a", "*">>, RuleOther>>, <<<<"*">>, RuleList(<<<<"[", "x", "y", "]">>>>)>> >> }

Documents ==
    UNION {[1..n -> LinePool] : n \in 0..MaxLines} \cup {ScenarioBlockDoc, ScenarioLineDoc}

InitFilter ==
    /\ config_list \in Documents
    /\ exemption_rules \in RuleSets
    /\ pos = 1
    /\ in_fully_exempt_block = LoopStart.in_fully_exempt_block
    /\ current_line_exemptions = LoopStart.current_line_exemptions
    /\ filtered_config = LoopStart.filtered_config
    /\ was_exempt = <<>>
    /\ kept = {}

\* no document is being filtered
FilterIdle ==
    /\ config_list = <<>>
    /\ exemption_rules = <<>>
    /\ pos = 1
    /\ in_fully_exempt_block = FALSE
    /\ current_line_exemptions = <<>>
    /\ filtered_config = <<>>
    /\ was_exempt = <<>>
    /\ kept = {}

----------------------------------------------------------------------------
(* main() (main.py 120-219) *)

K_config == <<"c", "o", "n", "f", "i", "g">>

\* a file holding JSON: absent, not decodable, or a JSON value
AbsentFile == [state |-> "absent", data |-> JNull]
BadFile == [state |-> "bad", data |-> JNull]
JsonDoc(d) == [state |-> "json", data |-> d]

\* the exemption rule file, its content already as a rule set
AbsentRules == [state |-> "absent", rules |-> <<>>]
BadRules == [state |-> "bad", rules |-> <<>>]
JsonRules(r) == [state |-> "json", rules |-> r]

Exit(code) == mpc' = "exit" /\ exit_code' = code

\* lines 148-170: load the reference, then construct ArubaCentralAPI, whose
\* __init__ (aruba_central_api.py 16-24) calls _get_access_token
load_config_to_compare_always ==
    /\ mpc = "start"
    /\ LET f == IF args.previous_config THEN previous_file ELSE template_file
       IN IF f.state # "json"
          THEN /\ Exit(1)
               /\ log' = log \o <<"read_reference">>
               /\ UNCHANGED <<config_to_compare, tpc>>
          ELSE /\ config_to_compare' = f.data
               /\ log' = log \o <<"read_reference">>
               /\ mpc' = "api"
               /\ tpc' = "call"
               /\ UNCHANGED exit_code
    /\ UNCHANGED <<token_file, now, client_id, client_secret, base_url, access_token,
                   ret, token_file0, now0>>
    /\ UNCHANGED <<args, group_name, template_file, previous_file, exemptions_file,
                   saved_file, live_config, additions, removals, diff>>
    /\ UNCHANGED filterVars

load_config_to_compare ==
    /\ mpc = "start"
    /\ LET f == IF args.previous_config THEN previous_file ELSE template_file
           reads == args.previous_config \/ ~args.save_config
       IN IF reads /\ f.state # "json"
          THEN /\ Exit(1)
               /\ log' = log \o <<"read_reference">>
               /\ UNCHANGED <<config_to_compare, tpc>>
          ELSE /\ config_to_compare' = IF reads THEN f.data ELSE JNull
               /\ log' = IF reads THEN log \o <<"read_reference">> ELSE log
               /\ mpc' = "api"
               /\ tpc' = "call"
               /\ UNCHANGED exit_code
    /\ UNCHANGED <<token_file, now, client_id, client_secret, base_url, access_token,
                   ret, token_file0, now0>>
    /\ UNCHANGED <<args, group_name, template_file, previous_file, exemptions_file,
                   saved_file, live_config, additions, removals, diff>>
    /\ UNCHANGED filterVars

\* aruba_central_api.py 24-31 and main.py 217-219: _get_access_token is over
api_init_done ==
    /\ mpc = "api"
    /\ tpc \in {"returned", "raised"}
    /\ IF tpc = "raised" THEN Exit(1)
       ELSE IF ~Truthy(base_url) THEN Exit(2)
       ELSE mpc' = "fetch" /\ UNCHANGED exit_code
    /\ UNCHANGED tokenVars
    /\ UNCHANGED <<args, group_name, template_file, previous_file, exemptions_file,
                   saved_file, config_to_compare, live_config, additions, removals, diff>>
    /\ UNCHANGED filterVars

\* apply_exemptions on the 'config' entry of a document (lines 188-192)
FilterConfig(d, rules) ==
    IF ~HasKey(d, K_config) THEN d
    ELSE LET v == Get(d, K_config)
             lines == [i \in DOMAIN v.items |-> v.items[i].val.s]
             out == apply_exemptions(lines, rules)
         IN IF v.kind # "list" THEN d
            ELSE Put(d, K_config, JList([i \in DOMAIN out |-> JStr(out[i])]))

\* line 212-215
ExitStatusOne(different) == IF different THEN 1 ELSE 0

ExitStatus(different) == IF different THEN 3 ELSE 0

\* the documents of a whole run
DocA == JDict(<< <<K_config, JList(<<JStr(S_h), JStr(S_a1), JStr(S_x), JStr(S_bang)>>)>>,
                 <<<<"k">>, JInt(1)>> >>)
DocB == JDict(<< <<<<"k">>, JInt(1)>>,
                 <<K_config, JList(<<JStr(S_h), JStr(S_a1), JStr(S_y), JStr(S_bang)>>)>> >>)
DocC == JDict(<< <<K_config, JList(<<JStr(S_h), JStr(S_a1), JStr(S_x), JStr(S_bang)>>)>>,
                 <<<<"k">>, JInt(1)>>, <<<<"z">>, JInt(2)>> >>)

LiveDocs == {DocA, DocB, DocC}

FetchOutcomes == {[ok |-> FALSE, doc |-> JNull]} \cup {[ok |-> TRUE, doc |-> d] : d \in LiveDocs}

MainRuleSets ==
    { << <<<<"a", "*">>, RuleStar>>, <<<<"h">>, RuleList(<<<<"y">>>>)>> >> }

MainStoredRecords ==
    { NoFile,
      JsonFile(TokenRecord("A0", "R0", IssuedAt + 1, None, None)),
      JsonFile(TokenRecord("A0", "R0", IssuedAt, None, None)) }

\* main.py 171-179 with get_group_level_config / get_device_override_config
\* and call_api (aruba_central_api.py 126-165)
fetch_live_config ==
    /\ mpc = "fetch"
    /\ IF ~Truthy(group_name) \/ ~Truthy(access_token)
       THEN /\ Exit(1)
            /\ UNCHANGED <<live_config, log>>
       ELSE \E resp \in FetchOutcomes :
            /\ log' = log \o <<IF args.mac_address THEN "get_committed" ELSE "get_effective">>
            /\ IF resp.ok
               THEN /\ live_config' = resp.doc
                    /\ mpc' = "exemptions"
                    /\ UNCHANGED exit_code
               ELSE /\ Exit(1)
                    /\ UNCHANGED live_config
    /\ UNCHANGED <<token_file, now, client_id, client_secret, base_url, access_token,
                   tpc, ret, token_file0, now0>>
    /\ UNCHANGED <<args, group_name, template_file, previous_file, exemptions_file,
                   saved_file, config_to_compare, additions, removals, diff>>
    /\ UNCHANGED filterVars

\* main.py 182-196
load_exemptions ==
    /\ mpc = "exemptions"
    /\ IF ~args.exemptions
       THEN /\ mpc' = "save"
            /\ UNCHANGED <<config_to_compare, live_config, exit_code, log>>
       ELSE /\ log' = log \o <<"read_exemptions">>
            /\ IF exemptions_file.state # "json"
               THEN /\ Exit(1)
                    /\ UNCHANGED <<config_to_compare, live_config>>
               ELSE /\ config_to_compare' =
                         IF config_to_compare.kind = "dict" /\ config_to_compare.items # <<>>
                         THEN FilterConfig(config_to_compare, exemptions_file.rules)
                         ELSE config_to_compare
                    /\ live_config' = FilterConfig(live_config, exemptions_file.rules)
                    /\ mpc' = "save"
                    /\ UNCHANGED exit_code
    /\ UNCHANGED <<token_file, now, client_id, client_secret, base_url, access_token,
                   tpc, ret, token_file0, now0>>
    /\ UNCHANGED <<args, group_name, template_file, previous_file, exemptions_file,
                   saved_file, additions, removals, diff>>
    /\ UNCHANGED filterVars

\* main.py 198-206
save_config ==
    /\ mpc = "save"
    /\ IF ~args.save_config
       THEN /\ mpc' = "compare"
            /\ UNCHANGED <<saved_file, exit_code, log>>
       ELSE \E written \in BOOLEAN :
            /\ log' = log \o <<"write_snapshot">>
            /\ saved_file' = IF written THEN JsonDoc(live_config) ELSE saved_file
            /\ IF written /\ ~args.previous_config /\ template_file.state = "absent"
               THEN Exit(0)
               ELSE mpc' = "compare" /\ UNCHANGED exit_code
    /\ UNCHANGED <<token_file, now, client_id, client_secret, base_url, access_token,
                   tpc, ret, token_file0, now0>>
    /\ UNCHANGED <<args, group_name, template_file, previous_file, exemptions_file,
                   config_to_compare, live_config, additions, removals, diff>>
    /\ UNCHANGED filterVars

\* main.py 208-215
compare_and_exit ==
    /\ mpc = "compare"
    /\ IF config_to_compare = JNull
       THEN /\ Exit(0)
            /\ UNCHANGED <<additions, removals, diff>>
       ELSE LET r == compare_configs(config_to_compare, live_config) IN
            /\ additions' = r.additions
            /\ removals' = r.removals
            /\ diff' = r.diff
            /\ Exit(ExitStatus(r.different))
    /\ UNCHANGED tokenVars
    /\ UNCHANGED <<args, group_name, template_file, previous_file, exemptions_file,
                   saved_file, config_to_compare, live_config>>
    /\ UNCHANGED filterVars

----------------------------------------------------------------------------
(* A whole run of main() *)

Args == [previous_config : BOOLEAN, save_config : BOOLEAN,
         exemptions : BOOLEAN, mac_address : BOOLEAN]

InitMain ==
    /\ args \in Args
    /\ group_name \in {None, "grp"}
    /\ template_file \in {AbsentFile, BadFile, JsonDoc(DocA), JsonDoc(DocB)}
    /\ previous_file \in IF args.previous_config
                         THEN {AbsentFile, JsonDoc(DocA), JsonDoc(DocB)}
                         ELSE {AbsentFile}
    /\ exemptions_file \in IF args.exemptions
                           THEN {BadRules} \cup {JsonRules(r) : r \in MainRuleSets}
                           ELSE {AbsentRules}
    /\ saved_file = AbsentFile
    /\ mpc = "start"
    /\ config_to_compare = JNull
    /\ live_config = JNull
    /\ exit_code = 0 - 1
    /\ additions = 0 - 1
    /\ removals = 0 - 1
    /\ diff = <<>>

\* main() is not running
MainIdle ==
    /\ args = [previous_config |-> FALSE, save_config |-> FALSE,
               exemptions |-> FALSE, mac_address |-> FALSE]
    /\ group_name = None
    /\ template_file = AbsentFile
    /\ previous_file = AbsentFile
    /\ exemptions_file = AbsentRules
    /\ saved_file = AbsentFile
    /\ mpc = "idle"
    /\ config_to_compare = JNull
    /\ live_config = JNull
    /\ exit_code = 0 - 1
    /\ additions = 0 - 1
    /\ removals = 0 - 1
    /\ diff = <<>>

Init ==
    /\ InitMain
    /\ token_file \in MainStoredRecords
    /\ now = IssuedAt + TOKEN_LIFETIME
    /\ client_id \in {None, "id"}
    /\ client_secret = "secret"
    /\ base_url \in {None, "https://central"}
    /\ access_token = None
    /\ tpc = "idle"
    /\ ret = "-"
    /\ log = <<>>
    /\ token_file0 = token_file
    /\ now0 = now
    /\ FilterIdle

Next ==
    \/ load_config_to_compare
    \/ get_access_token
    \/ refresh_token
    \/ authenticate_new_token
    \/ api_init_done
    \/ fetch_live_config
    \/ load_exemptions
    \/ save_config
    \/ compare_and_exit

Spec == Init /\ [][Next]_vars

----------------------------------------------------------------------------
(* The token manager on its own *)

StoredRecords ==
    {NoFile} \cup
    {JsonFile(TokenRecord(at, rt, ts, None, None)) :
        at \in {None, "A0"}, rt \in {None, "R0"}, ts \in {0, IssuedAt}}

ClockValues == {IssuedAt + TOKEN_LIFETIME + k : k \in (0 - MaxSkew)..MaxSkew}

InitToken ==
    /\ token_file \in StoredRecords
    /\ now \in ClockValues
    /\ client_id \in {None, "", "id"}
    /\ client_secret \in {None, "secret"}
    /\ base_url \in {None, "https://central"}
    /\ access_token = None
    /\ tpc = "call"
    /\ ret = "-"
    /\ log = <<>>
    /\ token_file0 = token_file
    /\ now0 = now

NextToken ==
    \/ get_access_token
    \/ refresh_token
    \/ authenticate_new_token

\* only the token manager runs
InitTokenAlone == InitToken /\ FilterIdle /\ MainIdle

SpecToken == InitTokenAlone /\ [][NextToken]_vars

\* the token manager is not running
TokenIdle ==
    /\ token_file = NoFile
    /\ now = IssuedAt
    /\ client_id = None
    /\ client_secret = None
    /\ base_url = None
    /\ access_token = None
    /\ tpc = "idle"
    /\ ret = "-"
    /\ log = <<>>
    /\ token_file0 = NoFile
    /\ now0 = IssuedAt

NextFilter == ApplyExemptionsLine

\* only apply_exemptions runs
InitFilterAlone == InitFilter /\ TokenIdle /\ MainIdle

SpecFilter == InitFilterAlone /\ [][NextFilter]_vars

----------------------------------------------------------------------------
(* compare_configs on bounded pairs of documents *)

NumKeys == 3        \* keys a generated document draws from

KeyPool == << <<"a">>, K_config, <<"z">>, <<"m">>, <<"b">> >>
CompareKeys == {KeyPool[i] : i \in 1..NumKeys}
ValuePool == {JInt(1), JList(<<JStr(S_h), JStr(S_x)>>), JDict(<<>>)}

CompareDocs ==
    UNION {{[kind |-> "dict", s |-> <<>>, n |-> 0,
             items |-> [i \in 1..len |-> Item(ks[i], vs[i])]] :
                ks \in {f \in [1..len -> CompareKeys] :
                            \A i, j \in 1..len : i # j => f[i] # f[j]},
                vs \in [1..len -> ValuePool]} :
           len \in 0..NumKeys}

\* documents with objects below the top level
NestedDocs ==
    { JDict(<< <<<<"a">>, JDict(<< <<<<"m">>, JInt(1)>>,
                                  <<<<"b">>, JList(<<JStr(S_h), JStr(S_x)>>)>> >>)>>,
               <<<<"z">>, JInt(1)>> >>),
      JDict(<< <<K_config, JList(<<JStr(S_h), JStr(S_x)>>)>>,
               <<<<"m">>, JDict(<< <<<<"z">>, JDict(<< <<<<"b">>, JInt(1)>>,
                                                     <<<<"a">>, JInt(2)>> >>)>>,
                                  <<<<"a">>, JInt(1)>> >>)>> >>) }

\* the same document with the keys of every object inserted in reverse order
RECURSIVE ReverseKeys(_)
ReverseKeys(v) ==
    CASE v.kind = "dict" ->
            [v EXCEPT !.items = [i \in DOMAIN v.items |->
                LET it == v.items[Len(v.items) + 1 - i]
                IN Item(it.key, ReverseKeys(it.val))]]
      [] v.kind = "list" ->
            [v EXCEPT !.items = [i \in DOMAIN v.items |->
                Item(v.items[i].key, ReverseKeys(v.items[i].val))]]
      [] OTHER -> v

InsertAt(seq, at, e) == SubSeq(seq, 1, at - 1) \o <<e>> \o SubSeq(seq, at, Len(seq))

\* the documents a document is compared with: itself, itself with its keys
\* in reverse insertion order (at the top level, at every level), with one
\* more key, one key less, one value changed
Variants(d) ==
    {d, [d EXCEPT !.items = [i \in DOMAIN d.items |-> d.items[Len(d.items) + 1 - i]]],
     ReverseKeys(d)}
    \cup {[d EXCEPT !.items = InsertAt(d.items, at, Item(k, v))] :
            at \in 1..(Len(d.items) + 1), k \in CompareKeys \ Keys(d), v \in ValuePool}
    \cup {[d EXCEPT !.items = RemoveAt(d.items, i)] : i \in DOMAIN d.items}
    \cup {Put(d, k, v) : k \in Keys(d), v \in ValuePool}

InitCompare ==
    /\ args = [previous_config |-> FALSE, save_config |-> FALSE,
               exemptions |-> FALSE, mac_address |-> FALSE]
    /\ group_name = None
    /\ template_file = AbsentFile
    /\ previous_file = AbsentFile
    /\ exemptions_file = AbsentRules
    /\ saved_file = AbsentFile
    /\ mpc = "compare"
    /\ config_to_compare \in CompareDocs \cup NestedDocs
    /\ live_config \in Variants(config_to_compare)
    /\ exit_code = 0 - 1
    /\ additions = 0 - 1
    /\ removals = 0 - 1
    /\ diff = <<>>

NextCompare == compare_and_exit

\* only the comparison runs
InitCompareAlone == InitCompare /\ TokenIdle /\ FilterIdle

SpecCompare == InitCompareAlone /\ [][NextCompare]_vars

----------------------------------------------------------------------------
(* Properties of the token manager, under SpecToken *)

Called == tpc \notin {"idle", "call"}
Posts == {"post_refresh", "post_reissue"}
InLog(e) == \E i \in DOMAIN log : log[i] = e

\* the stored record held an access token younger than 7200 s when it was read
FreshAtCall ==
    /\ token_file0.state = "json"
    /\ Truthy(token_file0.data.access_token)
    /\ now0 - token_file0.data.timestamp < 7200

\* C1: _get_access_token returns the cached access token, with no token
\* exchange and no write of token.json, exactly when the stored record holds
\* an access token whose age is strictly below 7200 s; at 7200 s the record is
\* stale and an exchange is started (or the call fails for lack of
\* credentials).
C1_CacheExactlyWhenFresh ==
    Called =>
        /\ (ret = "cached") <=> FreshAtCall
        /\ ret = "cached" =>
            /\ tpc = "returned"
            /\ access_token = token_file0.data.access_token
            /\ token_file = token_file0
            /\ log = <<"load">>
        /\ ~FreshAtCall => (\E i \in DOMAIN log : log[i] \in Posts) \/ ret = "no_credentials"

C1_Witness ==
    /\ ret = "cached"
    /\ now0 - token_file0.data.timestamp = 7199
    /\ access_token = "A0"

\* C2: when the refresh exchange fails and client id and client secret are
\* both configured, the reissue is attempted exactly once; when the reissue
\* fails too, the call returns no token and token.json is what it was before
\* the call.
C2_FallbackOnce ==
    (InLog("refresh_err") /\ HasCredentials(client_id, client_secret)) =>
        /\ Count(log, "post_reissue") = 1
        /\ InLog("reissue_err") =>
            /\ tpc = "returned"
            /\ access_token = None
            /\ token_file = token_file0

C2_Witness ==
    /\ InLog("refresh_err")
    /\ InLog("reissue_err")
    /\ HasCredentials(client_id, client_secret)
    /\ Truthy(base_url)
    /\ token_file0.state = "json"
    /\ tpc = "returned"

\* C3: when the refresh exchange fails and the client id or the client secret
\* is not configured, no client-credentials reissue request is sent and the
\* call fails for lack of credentials (stated for a configured base URL, where
\* the request really leaves the process).
C3_NoReissueWithoutCredentials ==
    (InLog("refresh_err") /\ ~HasCredentials(client_id, client_secret) /\ Truthy(base_url)) =>
        /\ ~InLog("post_reissue")
        /\ tpc = "returned" => ret = "no_credentials"

\* C4: a call of _get_access_token performs at most two token exchanges, at
\* most one refresh and then at most one reissue; nothing is sent after the
\* reissue, and a call is waiting exactly while its last exchange is unanswered.
C4_AtMostTwoExchanges ==
    /\ Count(log, "post_refresh") <= 1
    /\ Count(log, "post_reissue") <= 1
    /\ \A i, j \in DOMAIN log : (log[i] = "post_reissue" /\ j > i) => log[j] \notin Posts
    /\ tpc \in {"returned", "raised"} => log[Len(log)] \notin Posts
    /\ tpc \in {"refreshing", "reissuing"} => log[Len(log)] \in Posts

C4_Witness ==
    /\ tpc = "returned"
    /\ Count(log, "post_refresh") = 1
    /\ Count(log, "post_reissue") = 1
    /\ ret = "reissue_ok"

\* C5: token.json is written only right after a successful exchange, and it
\* is written before the new access token is returned; a cache hit, a failed
\* exchange and a failure for lack of credentials leave token.json unchanged.
C5_WriteOnlyOnSuccess ==
    /\ \A i \in DOMAIN log :
        log[i] = "save" => (i > 1 /\ log[i - 1] \in {"refresh_ok", "reissue_ok"})
    /\ token_file # token_file0 => InLog("save")
    /\ ret \in {"refresh_ok", "reissue_ok"} =>
        /\ log[Len(log)] = "save"
        /\ token_file.state = "json"
        /\ token_file.data.access_token = access_token
        /\ token_file.data.timestamp = now
    /\ ret \in {"cached", "no_credentials", "auth_failed"} => token_file = token_file0

C5_Witness ==
    /\ ret = "refresh_ok"
    /\ access_token = "A1"
    /\ token_file # token_file0
    /\ token_file.data.access_token = "A1"

----------------------------------------------------------------------------
(* Properties of apply_exemptions, under SpecFilter *)

\* the first entry of the rule set that matches the line is the "*" sentinel
FirstRuleIsStar(line, rules) ==
    \E i \in DOMAIN rules :
        /\ fnmatch(line, rules[i][1])
        /\ rules[i][2].kind = "star"
        /\ \A k \in 1..(i - 1) : ~fnmatch(line, rules[k][1])

\* header lines the loop met outside an exempt block
HeadersMet == {h \in DOMAIN was_exempt : ~was_exempt[h] /\ IsHeader(config_list[h])}

\* the index of the first line after h that trims to "!", or the last index
BlockEnd(h) ==
    LET ends == {k \in (h + 1)..Len(config_list) : Strip(config_list[k]) = <<"!">>}
    IN IF ends = {} THEN Len(config_list) ELSE CHOOSE k \in ends : \A e \in ends : k <= e

HasTerminator(h) == \E k \in (h + 1)..Len(config_list) : Strip(config_list[k]) = <<"!">>

\* C6: apply_exemptions is idempotent: filtering its own output with the
\* same rule set changes nothing.
C6_Idempotent ==
    FilterDone => apply_exemptions(filtered_config, exemption_rules) = filtered_config

\* C7: when the first matching rule of a header line is "*", the header and
\* every line up to and including the first line that trims to "!" (or up to
\* the end of the input) are absent from the output, and the line after that
\* terminator is met outside the exempt block; the scenario of the
\* interface block yields the hostname line alone.
C7_BlockRemoved ==
    FilterDone =>
        /\ \A h \in HeadersMet :
            FirstRuleIsStar(config_list[h], exemption_rules) =>
                /\ \A k \in h..BlockEnd(h) : k \notin kept
                /\ (HasTerminator(h) /\ BlockEnd(h) < Len(config_list)) =>
                        ~was_exempt[BlockEnd(h) + 1]
                /\ ~HasTerminator(h) => in_fully_exempt_block
        /\ (config_list = ScenarioBlockDoc /\ exemption_rules = ScenarioBlockRules) =>
                filtered_config = <<L_hostname>>

C7_Witness ==
    /\ FilterDone
    /\ config_list = ScenarioBlockDoc
    /\ exemption_rules = ScenarioBlockRules
    /\ filtered_config = <<L_hostname>>
    /\ kept = {4}

\* C8: a header line met outside an exempt block is emitted unless its first
\* matching rule is "*": with a list of line patterns, or with no matching
\* rule, the header line is in the output whatever the line patterns are.
C8_HeaderEmitted ==
    FilterDone =>
        \A h \in HeadersMet :
            ~FirstRuleIsStar(config_list[h], exemption_rules) => h \in kept

----------------------------------------------------------------------------
(* Properties of compare_configs, under SpecCompare *)

\* b holds every key of a with an equal value, and exactly one key more
OneExtraKey(a, b) ==
    /\ a.kind = "dict"
    /\ b.kind = "dict"
    /\ Len(b.items) = Len(a.items) + 1
    /\ \A k \in Keys(a) : k \in Keys(b) /\ PyEq(Get(a, k), Get(b, k))

\* the extra key sorts after every key of a
ExtraKeySortsLast(a, b) ==
    \A x \in Keys(b) \ Keys(a) : \A k \in Keys(a) : StrLess(k, x)

Compared == mpc = "exit" /\ config_to_compare # JNull /\ live_config # JNull

\* C9: when the second document is the first plus one extra top-level key,
\* the verdict is 'different' with addedCount >= 1 and removedCount = 0,
\* wherever the extra key sorts and whatever the first document is.
C9_ExtraKeyNoRemoval ==
    (Compared /\ OneExtraKey(config_to_compare, live_config)) =>
        /\ exit_code = 3
        /\ additions >= 1
        /\ removals = 0

\* C9 as amended: the verdict is 'different' with addedCount >= 1;
\* removedCount = 0 when the first document is not empty and the extra key
\* does not sort last; removedCount = 1 when the first document is empty (its
\* line "{}" is replaced), and at most 1 when the extra key sorts last (the
\* line before it gains a comma).
C9_ExtraKeyAmended ==
    (Compared /\ OneExtraKey(config_to_compare, live_config)) =>
        /\ exit_code = 3
        /\ additions >= 1
        /\ (config_to_compare.items # <<>> /\ ~ExtraKeySortsLast(config_to_compare, live_config))
                => removals = 0
        /\ config_to_compare.items = <<>> => removals = 1
        /\ removals <= 1

C9_Witness ==
    /\ Compared
    /\ OneExtraKey(config_to_compare, live_config)
    /\ Len(config_to_compare.items) = 2
    /\ ~ExtraKeySortsLast(config_to_compare, live_config)
    /\ \E x \in Keys(live_config) \ Keys(config_to_compare) :
            \E k \in Keys(config_to_compare) : StrLess(k, x)
    /\ removals = 0
    /\ additions >= 1

\* the canonical forms (sorted keys, fixed indentation) are the same text
SameCanonicalForm(a, b) == Dumps(a, 0) = Dumps(b, 0)

\* C11: two documents that hold the same keys and values at every nesting
\* level compare as equal, whatever the insertion order of their keys: the
\* verdict is 'match' (exit status 0), no diff is rendered and no counts are
\* printed.
C11_EqualUnderKeyOrder ==
    (Compared /\ SameCanonicalForm(config_to_compare, live_config)) =>
        /\ exit_code = 0
        /\ diff = <<>>
        /\ additions = 0 - 1
        /\ removals = 0 - 1

C11_Witness ==
    /\ Compared
    /\ exit_code = 0
    /\ live_config = ReverseKeys(config_to_compare)
    /\ Len(config_to_compare.items) >= 2
    /\ config_to_compare.items[1].key # live_config.items[1].key
    /\ \E k \in Keys(config_to_compare) :
            /\ Get(config_to_compare, k).kind = "dict"
            /\ Get(config_to_compare, k) # Get(live_config, k)

----------------------------------------------------------------------------
(* Properties of a whole run, under Spec *)

LiveObtained == live_config # JNull
ReferenceLoaded == config_to_compare # JNull

\* the exemption file, when one is given, can be loaded
ExemptionsLoadable == args.exemptions => exemptions_file.state = "json"

\* C10: a run that obtained a live document and loaded a reference document
\* exits with status 3 if and only if the two documents (after any exemption
\* filtering) differ, and with status 0 if they are equal; a run that
\* obtained a live document and has no reference exits with status 0.
C10_ExitStatus ==
    (mpc = "exit" /\ LiveObtained) =>
        /\ ReferenceLoaded =>
            /\ (exit_code = 3) <=> ~PyEq(config_to_compare, live_config)
            /\ PyEq(config_to_compare, live_config) => exit_code = 0
        /\ ~ReferenceLoaded => exit_code = 0

\* C10 as amended: the same, for runs whose exemption file, when one is
\* given, can be loaded (a run that cannot load it exits with status 1).
C10_ExitStatusAmended ==
    (mpc = "exit" /\ LiveObtained /\ ExemptionsLoadable) =>
        /\ ReferenceLoaded =>
            /\ (exit_code = 3) <=> ~PyEq(config_to_compare, live_config)
            /\ PyEq(config_to_compare, live_config) => exit_code = 0
        /\ ~ReferenceLoaded => exit_code = 0

C10_Witness ==
    /\ mpc = "exit"
    /\ exit_code = 3
    /\ LiveObtained
    /\ ReferenceLoaded
    /\ args.exemptions
    /\ args.save_config
    /\ ~PyEq(config_to_compare, live_config)

\* a configuration fetch request was sent
Fetched == InLog("get_effective") \/ InLog("get_committed")

\* C12: a run that exits with status 2 for a missing base URL has not read
\* token.json and has not attempted a refresh or a reissue exchange.
C12_BaseUrlBeforeTokenLogic ==
    (mpc = "exit" /\ exit_code = 2) =>
        /\ ~Truthy(base_url)
        /\ ~InLog("load")
        /\ \A i \in DOMAIN log : log[i] \notin Posts

\* the write of the snapshot was attempted and left no snapshot
SnapshotWriteFailed == InLog("write_snapshot") /\ saved_file.state # "json"

\* C13: a run whose snapshot write failed terminates with status 1; it does
\* not compare and does not exit with 0 or 3.
C13_SnapshotFailureFatal ==
    (mpc = "exit" /\ SnapshotWriteFailed) =>
        /\ exit_code = 1
        /\ additions = 0 - 1

\* _get_access_token ended without a usable token
NoUsableToken == tpc = "raised" \/ (tpc = "returned" /\ ~Truthy(access_token))

\* C14: when token acquisition ends without a usable token, no fetch request
\* is sent, no live document is obtained, nothing is compared or saved, and
\* the run terminates with status 1.
C14_AuthFailureStopsRun ==
    NoUsableToken =>
        /\ ~Fetched
        /\ live_config = JNull
        /\ mpc \notin {"exemptions", "save", "compare"}
        /\ ~InLog("write_snapshot")
        /\ additions = 0 - 1
        /\ mpc = "exit" => exit_code = 1

----------------------------------------------------------------------------
(* Further properties of apply_exemptions, under SpecFilter *)

\* the value of the first entry, in declared order, whose pattern matches
\* line h; RuleOther when no entry matches
FirstMatchingRule(h) ==
    LET first == {i \in DOMAIN exemption_rules :
                    /\ fnmatch(config_list[h], exemption_rules[i][1])
                    /\ \A k \in 1..(i - 1) : ~fnmatch(config_list[h], exemption_rules[k][1])}
    IN IF first = {} THEN RuleOther ELSE exemption_rules[CHOOSE i \in first : TRUE][2]

\* the line patterns header line h selects
SelectedPatterns(h) ==
    IF FirstMatchingRule(h).kind = "list" THEN FirstMatchingRule(h).pats ELSE <<>>

\* the trimmed form of the line matches one of the patterns
MatchesTrimmed(line, pats) == \E k \in DOMAIN pats : fnmatch(Strip(line), pats[k])

\* the non-header lines that follow header h, up to the next header, met so far
BlockLines(h) ==
    {j \in (h + 1)..Len(was_exempt) : \A k \in (h + 1)..j : ~IsHeader(config_list[k])}

\* C15: the first entry, in declared order, whose pattern matches a header
\* line decides the treatment of its block, whatever later entries match:
\* with "*" the header is dropped and the next line is met inside the exempt
\* block; otherwise the next line is met outside an exempt block and a line
\* of the block is dropped exactly when it matches a line pattern of that
\* first entry (none when the entry is not a list).
C15_FirstMatchWins ==
    \A h \in HeadersMet :
        /\ FirstMatchingRule(h).kind = "star" =>
            /\ h \notin kept
            /\ h + 1 <= Len(was_exempt) => was_exempt[h + 1]
        /\ FirstMatchingRule(h).kind # "star" =>
            /\ h + 1 <= Len(was_exempt) => ~was_exempt[h + 1]
            /\ \A j \in BlockLines(h) :
                (j \notin kept) <=> MatchesTrimmed(config_list[j], SelectedPatterns(h))

C15_Witness ==
    /\ FilterDone
    /\ config_list = <<S_a1, S_x, S_y>>
    /\ exemption_rules = << <<<<"?", "1">>, RuleList(<<<<"x">>>>)>>, <<<<"a", "*">>, RuleStar>> >>
    /\ kept = {1, 3}

RECURSIVE IsSubsequence(_, _)
IsSubsequence(a, b) ==
    IF a = <<>> THEN TRUE
    ELSE IF b = <<>> THEN FALSE
    ELSE IF Head(a) = Head(b) THEN IsSubsequence(Tail(a), Tail(b))
    ELSE IsSubsequence(a, Tail(b))

\* the i-th smallest index of the lines emitted
KeptIndex(i) == CHOOSE k \in kept : Cardinality({m \in kept : m < k}) = i - 1

\* C19: the output is a subsequence of the input: every emitted line is an
\* input line, unmodified, in input order, emitted once; with an empty rule
\* set the output is the input.
C19_OutputIsSubsequence ==
    /\ IsSubsequence(filtered_config, SubSeq(config_list, 1, pos - 1))
    /\ Len(filtered_config) = Cardinality(kept)
    /\ \A i \in DOMAIN filtered_config : filtered_config[i] = config_list[KeptIndex(i)]
    /\ (FilterDone /\ exemption_rules = <<>>) => filtered_config = config_list

C19_Witness ==
    /\ FilterDone
    /\ Len(config_list) = 4
    /\ kept = {1, 3}
    /\ filtered_config = <<config_list[1], config_list[3]>>
    /\ config_list[3] # Strip(config_list[3])

----------------------------------------------------------------------------
(* Properties of the token store *)

\* the write of token.json that follows a successful refresh exchange failed
TokenSaveFailed ==
    /\ InLog("refresh_ok")
    /\ InLog("save")
    /\ token_file = token_file0 \/ token_file.state = "partial"

\* C17 (under Spec): when the write of token.json fails after a successful
\* refresh exchange, the new access token is still returned and the run goes
\* on to the fetch instead of terminating.
C17_TokenSaveFailureNonFatal ==
    TokenSaveFailed =>
        /\ tpc = "returned"
        /\ ret = "refresh_ok"
        /\ mpc = "exit" => (Fetched \/ ~Truthy(group_name) \/ ~Truthy(access_token))

\* C18 (under SpecToken): token.json always holds a complete record, the
\* previous one or the new one, also after a write that failed part-way.
C18_NeverHalfWritten ==
    /\ token_file.state # "partial"
    /\ token_file = token_file0 \/ (token_file.state = "json" /\ InLog("save"))

----------------------------------------------------------------------------
(* Snapshot runs, under Spec *)

SnapshotOnly == args.save_config /\ ~args.previous_config

\* C20: a run with a snapshot path and no previous-config path never reads
\* the template and never compares: it never exits with status 3, and once
\* the live document is fetched and the snapshot step is done it exits with
\* status 0, also when the live document differs from an existing template.
C20_SnapshotOnlyNeverCompares ==
    SnapshotOnly =>
        /\ ~InLog("read_reference")
        /\ config_to_compare = JNull
        /\ additions = 0 - 1 /\ removals = 0 - 1 /\ diff = <<>>
        /\ exit_code # 3
        /\ (mpc = "exit" /\ InLog("write_snapshot")) => exit_code = 0

C20_Witness ==
    /\ SnapshotOnly
    /\ mpc = "exit"
    /\ exit_code = 0
    /\ template_file.state = "json"
    /\ ~PyEq(template_file.data, live_config)
    /\ saved_file = JsonDoc(live_config)

====
